---------------------------- MODULE Spec2Model ----------------------------
(***************************************************************************)
(* Participants REST service (src/index.js): request validation, the      *)
(* derived final_average, the name-uniqueness check and the CRUD handlers  *)
(* over the participants table.                                            *)
(*                                                                         *)
(* Numbers with at most two decimal places are carried as integers in      *)
(* hundredths (8.75 is 875).  JavaScript arithmetic on them is carried out *)
(* on IEEE-754 binary64 values, modelled bit by bit below.                 *)
(***************************************************************************)
EXTENDS Integers, Sequences, FiniteSets, TLC

(***************************************************************************)
(* IEEE-754 binary64, positive normal values and zero.  A value is         *)
(* [z |-> is zero, e |-> exponent of the leading bit, m |-> the 53         *)
(* significand bits, most significant first].                              *)
(***************************************************************************)
MantBits == 53

Zeros(n) == [i \in 1..n |-> 0]

FZero == [z |-> TRUE, e |-> 0, m |-> Zeros(MantBits)]

PadRight(bits, n) == bits \o Zeros(n)
PadLeft(bits, n) == Zeros(n) \o bits

\* Bit strings are added and divided in limbs of LimbBits bits, so that every
\* intermediate value stays below 2^31.
LimbBits == 15

\* the natural number written by the first n bits (n <= LimbBits)
RECURSIVE BitsToNat(_, _)
BitsToNat(bits, n) ==
  IF n = 0 THEN 0 ELSE 2 * BitsToNat(bits, n - 1) + bits[n]

\* the n low bits of v, most significant first
NatToBits(v, n) == [i \in 1..n |-> (v \div (2 ^ (n - i))) % 2]

\* a bit string whose length is a multiple of LimbBits, as limbs
Limbs(bits) ==
  [k \in 1..(Len(bits) \div LimbBits) |->
     BitsToNat(SubSeq(bits, (k - 1) * LimbBits + 1, k * LimbBits), LimbBits)]

RECURSIVE LimbsToBits(_)
LimbsToBits(ls) ==
  IF ls = <<>> THEN <<>> ELSE NatToBits(Head(ls), LimbBits) \o LimbsToBits(Tail(ls))

\* limbs of a + b + carry, preceded by the carry out
RECURSIVE AddLimbsFrom(_, _, _, _)
AddLimbsFrom(a, b, i, carry) ==
  IF i = 0 THEN <<carry>>
  ELSE LET s == a[i] + b[i] + carry
       IN  Append(AddLimbsFrom(a, b, i - 1, s \div (2 ^ LimbBits)), s % (2 ^ LimbBits))

\* bits of a + b, both of the same length; one bit longer than the inputs
AddBits(a, b) ==
  LET n   == Len(a)
      pad == (LimbBits - (n % LimbBits)) % LimbBits
      la  == Limbs(PadLeft(a, pad))
      lb  == Limbs(PadLeft(b, pad))
      sum == AddLimbsFrom(la, lb, Len(la), 0)
      all == <<sum[1]>> \o LimbsToBits(Tail(sum))
  IN  SubSeq(all, pad + 1, pad + n + 1)

LeadingZeros(bits) ==
  LET ones == {i \in 1..Len(bits) : bits[i] = 1}
  IN  IF ones = {} THEN Len(bits)
      ELSE (CHOOSE i \in ones : \A j \in ones : i <= j) - 1

AnyOne(bits) == \E i \in 1..Len(bits) : bits[i] = 1

\* round-to-nearest, ties-to-even of the bit string `bits' whose first bit
\* has weight 2^e (leading zeros allowed) to a binary64 value
RoundToDouble(bits, e) ==
  LET lz   == LeadingZeros(bits)
      b    == PadRight(SubSeq(bits, lz + 1, Len(bits)), MantBits + 1)
      kept == SubSeq(b, 1, MantBits)
      g    == b[MantBits + 1]
      st   == AnyOne(SubSeq(b, MantBits + 2, Len(b)))
      up   == g = 1 /\ (st \/ kept[MantBits] = 1)
      inc  == AddBits(kept, PadLeft(<<1>>, MantBits - 1))
  IN  IF lz = Len(bits) THEN FZero
      ELSE IF ~up THEN [z |-> FALSE, e |-> e - lz, m |-> kept]
      ELSE IF inc[1] = 1
           THEN [z |-> FALSE, e |-> e - lz + 1, m |-> SubSeq(inc, 1, MantBits)]
           ELSE [z |-> FALSE, e |-> e - lz, m |-> SubSeq(inc, 2, MantBits + 1)]

\* limbs of the binary expansion of r/den (r < den), n limbs, followed by the
\* last remainder
RECURSIVE DivLimbs(_, _, _)
DivLimbs(r, den, n) ==
  IF n = 0 THEN <<r>>
  ELSE LET cur == r * (2 ^ LimbBits)
       IN  <<cur \div den>> \o DivLimbs(cur % den, den, n - 1)

\* the binary expansion of num/den (num < 2*den): the integer bit, then
\* n limbs of fraction bits, then one sticky bit for the remainder
DivBits(num, den, n) ==
  LET d == DivLimbs(num % den, den, n)
  IN  <<num \div den>> \o LimbsToBits(SubSeq(d, 1, n))
        \o <<IF d[n + 1] # 0 THEN 1 ELSE 0>>

\* largest exponent of a parsed decimal: values below 2^(MaxExp+1) = 32
MaxExp == 4

\* limbs of fraction bits kept when a decimal is parsed: more than the
\* 53 significand bits plus the leading zeros of 0.01
FracLimbs == 5

\* the binary64 value nearest to the decimal h/100 (a JSON number, or
\* parseFloat of a NUMERIC column's text)
FromHundredths(h) ==
  IF h = 0 THEN FZero
  ELSE RoundToDouble(DivBits(h, 100 * (2 ^ MaxExp), FracLimbs), MaxExp)

\* x + y
FAdd(x, y) ==
  IF x.z THEN y
  ELSE IF y.z THEN x
  ELSE LET e  == IF x.e >= y.e THEN x.e ELSE y.e
           xb == PadRight(PadLeft(x.m, e - x.e), e - y.e)
           yb == PadRight(PadLeft(y.m, e - y.e), e - x.e)
       IN  RoundToDouble(AddBits(xb, yb), e + 1)

\* x / 2 (exact for normal values)
FHalf(x) == IF x.z THEN x ELSE [x EXCEPT !.e = x.e - 1]

\* x * 100 = 64x + 32x + 4x
FMul100(x) ==
  IF x.z THEN x
  ELSE LET a == PadLeft(PadRight(x.m, 6), 1)
           b == PadLeft(PadRight(x.m, 5), 2)
           c == PadLeft(PadRight(x.m, 2), 5)
           ab == AddBits(a, b)
           s == AddBits(ab, PadLeft(c, 1))
       IN  RoundToDouble(s, x.e + 9)

\* Math.round: the nearest integer, ties towards +Infinity
MathRound(x) ==
  IF x.z \/ x.e < -1 THEN 0
  ELSE IF x.e = -1 THEN 1
  ELSE BitsToNat(x.m, x.e + 1) + x.m[x.e + 2]

(***************************************************************************)
(* JavaScript values, strings as sequences of one-character strings.       *)
(***************************************************************************)
Undefined == [t |-> "undefined"]
Null == [t |-> "null"]
Num(h) == [t |-> "number", h |-> h]
Str(s) == [t |-> "string", s |-> s]

UpperChars == <<"A","B","C","D","E","F","G","H","I","J","K","L","M",
                "N","O","P","Q","R","S","T","U","V","W","X","Y","Z">>
LowerChars == <<"a","b","c","d","e","f","g","h","i","j","k","l","m",
                "n","o","p","q","r","s","t","u","v","w","x","y","z">>
DigitChars == <<"0","1","2","3","4","5","6","7","8","9">>

Range(f) == {f[i] : i \in DOMAIN f}

UpperSet == Range(UpperChars)
DigitSet == Range(DigitChars)

LowerChar(c) ==
  IF c \in UpperSet
  THEN LowerChars[CHOOSE i \in DOMAIN UpperChars : UpperChars[i] = c]
  ELSE c

\* String.prototype.toLowerCase, and SQL LOWER()
ToLowerCase(s) == [i \in 1..Len(s) |-> LowerChar(s[i])]

\* the number of blanks s starts with, ends with
LeadingBlanks(s) ==
  IF \A i \in 1..Len(s) : s[i] = " " THEN Len(s)
  ELSE (CHOOSE i \in 1..Len(s) : s[i] # " " /\ \A j \in 1..(i - 1) : s[j] = " ") - 1

TrailingBlanks(s) ==
  IF \A i \in 1..Len(s) : s[i] = " " THEN Len(s)
  ELSE Len(s) - (CHOOSE i \in 1..Len(s) :
                   s[i] # " " /\ \A j \in (i + 1)..Len(s) : s[j] = " ")

\* String.prototype.trim
Trim(s) ==
  IF LeadingBlanks(s) = Len(s) THEN <<>>
  ELSE SubSeq(s, LeadingBlanks(s) + 1, Len(s) - TrailingBlanks(s))

IsDigit(c) == c \in DigitSet
DigitVal(c) == (CHOOSE i \in DOMAIN DigitChars : DigitChars[i] = c) - 1

\* the text of a number with at most two decimals: Number.prototype.toString
\* of the binary64 nearest h/100 (the shortest decimal that reads back as it),
\* which is also the text PostgreSQL keeps and returns for a NUMERIC column
RECURSIVE NatText(_)
NatText(n) ==
  IF n < 10 THEN <<DigitChars[n + 1]>>
  ELSE Append(NatText(n \div 10), DigitChars[(n % 10) + 1])

DecimalText(h) ==
  NatText(h \div 100)
    \o (IF h % 100 = 0 THEN <<>>
        ELSE <<".", DigitChars[((h % 100) \div 10) + 1]>>
               \o (IF h % 10 = 0 THEN <<>> ELSE <<DigitChars[(h % 10) + 1]>>))

\* the number of leading decimal digits of s
DigitRun(s) ==
  IF \A i \in 1..Len(s) : IsDigit(s[i]) THEN Len(s)
  ELSE (CHOOSE i \in 1..Len(s) : ~IsDigit(s[i]) /\ \A j \in 1..(i - 1) : IsDigit(s[j])) - 1

RECURSIVE DigitsToNat(_, _)
DigitsToNat(s, n) ==
  IF n = 0 THEN 0 ELSE 10 * DigitsToNat(s, n - 1) + DigitVal(s[n])

\* The longest numeric prefix of s (leading blanks skipped, digits, then an
\* optional point and digits), in hundredths; -1 when there is none (NaN).
\* Texts here carry at most two decimals.
NumericPrefix(s) ==
  LET t    == SubSeq(s, LeadingBlanks(s) + 1, Len(s))
      ni   == DigitRun(t)
      rest == SubSeq(t, ni + 1, Len(t))
      f    == IF rest # <<>> /\ rest[1] = "." THEN SubSeq(rest, 2, Len(rest)) ELSE <<>>
      nf   == DigitRun(f)
      d1   == IF nf >= 1 THEN DigitVal(f[1]) ELSE 0
      d2   == IF nf >= 2 THEN DigitVal(f[2]) ELSE 0
  IN  IF ni = 0 /\ nf = 0 THEN -1
      ELSE 100 * DigitsToNat(t, ni) + 10 * d1 + d2

\* String(v), as parseFloat and the driver's parameter binding apply it
ToText(v) ==
  CASE v.t = "number" -> DecimalText(v.h)
    [] v.t = "string" -> v.s
    [] v.t = "null" -> <<"n","u","l","l">>
    [] OTHER -> <<"u","n","d","e","f","i","n","e","d">>

FNaN == [nan |-> TRUE, v |-> FZero]

\* parseFloat: [nan |-> TRUE] or the binary64 value read
parseFloat(v) ==
  LET h == NumericPrefix(ToText(v))
  IN  IF h < 0 THEN FNaN ELSE [nan |-> FALSE, v |-> FromHundredths(h)]

(***************************************************************************)
(* calculateFinalAverage                                                   *)
(***************************************************************************)
\* Math.round(((first + second) / 2) * 100) / 100: the quotient is the
\* binary64 nearest n/100, carried as Num(n)
calculateFinalAverage(firstSemester, secondSemester) ==
  LET first  == parseFloat(firstSemester)
      second == parseFloat(secondSemester)
  IN  IF first.nan \/ second.nan
      THEN [threw |-> TRUE, value |-> Undefined]
      ELSE [threw |-> FALSE,
            value |-> Num(MathRound(FMul100(FHalf(FAdd(first.v, second.v)))))]

(***************************************************************************)
(* validateUUID and validateParticipantData                                *)
(***************************************************************************)
HexChars == DigitSet \cup {"a","b","c","d","e","f"} \cup {"A","B","C","D","E","F"}

\* a pattern that accepts any hexadecimal digit at every position
uuidRegexTestAnyHex(id) ==
  /\ Len(id) = 36
  /\ \A i \in 1..36 :
       CASE i \in {9, 14, 19, 24} -> id[i] = "-"
         [] OTHER -> id[i] \in HexChars

\* /^[0-9a-f]{8}-[0-9a-f]{4}-[1-5][0-9a-f]{3}-[89ab][0-9a-f]{3}-[0-9a-f]{12}$/i
uuidRegexTest(id) ==
  /\ Len(id) = 36
  /\ \A i \in 1..36 :
       CASE i \in {9, 14, 19, 24} -> id[i] = "-"
         [] i = 15 -> id[i] \in {"1","2","3","4","5"}
         [] i = 20 -> id[i] \in {"8","9","a","b","A","B"}
         [] OTHER -> id[i] \in HexChars

NoResponse == [status |-> 0, error |-> <<>>, details |-> <<>>]
Reply(status, error) == [status |-> status, error |-> error, details |-> <<>>]

\* the response validateUUID sends, NoResponse when it calls next()
validateUUID(id) ==
  IF id = <<>> THEN Reply(400, <<"ID é obrigatório">>)
  ELSE IF ~uuidRegexTest(id) THEN Reply(400, <<"ID deve ser um UUID válido">>)
  ELSE NoResponse

MaxNameLength == 255
AgeFloor == 0
MaxAge == 150
MinScore == 0
MaxScore == 10

NameErrors(full_name) ==
  IF full_name = Undefined THEN <<>>
  ELSE IF full_name.t # "string" \/ Len(Trim(full_name.s)) = 0
       THEN << <<"full_name", "deve ser uma string não vazia">> >>
  ELSE IF Len(Trim(full_name.s)) > MaxNameLength
       THEN << <<"full_name", "deve ter no máximo 255 caracteres">> >>
  ELSE <<>>

\* Number.isInteger
IsInteger(v) == v.t = "number" /\ v.h % 100 = 0

\* an age rule that lets 0 through
AgeErrorsFromZero(age) ==
  IF age = Undefined THEN <<>>
  ELSE IF ~IsInteger(age) \/ age.h < 100 * AgeFloor \/ age.h > 100 * MaxAge
       THEN << <<"age", "deve ser um número inteiro entre 1 e 150">> >>
  ELSE <<>>

AgeErrors(age) ==
  IF age = Undefined THEN <<>>
  ELSE IF ~IsInteger(age) \/ age.h <= 100 * AgeFloor \/ age.h > 100 * MaxAge
       THEN << <<"age", "deve ser um número inteiro entre 1 e 150">> >>
  ELSE <<>>

ScoreErrors(field, score) ==
  IF score = Undefined THEN <<>>
  ELSE IF score.t # "number" \/ score.h < 100 * MinScore \/ score.h > 100 * MaxScore
       THEN << <<field, "deve ser um número entre 0 e 10">> >>
  ELSE <<>>

\* the response validateParticipantData sends, NoResponse when it calls next()
validateParticipantData(body) ==
  LET errors == NameErrors(body.full_name) \o AgeErrors(body.age)
                  \o ScoreErrors("first_semester", body.first_semester)
                  \o ScoreErrors("second_semester", body.second_semester)
  IN  IF Len(errors) > 0
      THEN [status |-> 400, error |-> <<"Dados inválidos">>, details |-> errors]
      ELSE NoResponse

(***************************************************************************)
(* The participants table and the statements the handlers run on it.       *)
(* A row: id and full_name as text, age in years, the three NUMERIC        *)
(* columns in hundredths.                                                  *)
(***************************************************************************)
\* gen_random_uuid(): the k-th identifier handed out, a version-4 UUID
GenUUID(k) ==
  <<"1","2","3","e","4","5","6","7","-","e","8","9","b","-","4","2","d","3","-",
    "a","4","5","6","-","4","2","6","6","1","4","1","7","4","0">>
    \o <<DigitChars[((k \div 10) % 10) + 1], DigitChars[(k % 10) + 1]>>

\* the uuid column compares its values without regard to the case of the text
SelectById(rows, id) == {row \in rows : row.id = ToLowerCase(id)}

\* a lookup that compares the names as written
SelectByNameExact(rows, name) == {row \in rows : row.full_name = name}

\* SELECT id FROM participants WHERE LOWER(full_name) = LOWER($1)
SelectByName(rows, name) ==
  {row \in rows : ToLowerCase(row.full_name) = ToLowerCase(name)}

\* ... WHERE LOWER(full_name) = LOWER($1) AND id != $2
SelectByNameExcept(rows, name, id) ==
  {row \in rows : ToLowerCase(row.full_name) = ToLowerCase(name)
                    /\ row.id # ToLowerCase(id)}

\* full_name TEXT NOT NULL UNIQUE: another row holds exactly this text
UniqueViolation(rows, name, id) ==
  \E row \in rows : row.full_name = name /\ row.id # id

\* the CHECK constraints of the table
CheckViolation(row) ==
  \/ ~(row.age > AgeFloor /\ row.age <= MaxAge)
  \/ ~(row.first_semester >= 100 * MinScore /\ row.first_semester <= 100 * MaxScore)
  \/ ~(row.second_semester >= 100 * MinScore /\ row.second_semester <= 100 * MaxScore)

\* a bound parameter read into a NUMERIC, an INTEGER column
NumericParam(v) == NumericPrefix(ToText(v))
IntegerParam(v) == NumericPrefix(ToText(v)) \div 100

\* the row a statement writes from the parameters the handler binds
ParamsRow(id, p) ==
  [id |-> id, full_name |-> p.full_name.s, age |-> IntegerParam(p.age),
   first_semester |-> NumericParam(p.first_semester),
   second_semester |-> NumericParam(p.second_semester),
   final_average |-> NumericParam(p.final_average)]

\* a row as the driver returns it: INTEGER as a number, NUMERIC as text
RowToJs(row) ==
  [id |-> Str(row.id), full_name |-> Str(row.full_name), age |-> Num(100 * row.age),
   first_semester |-> Str(DecimalText(row.first_semester)),
   second_semester |-> Str(DecimalText(row.second_semester)),
   final_average |-> Str(DecimalText(row.final_average))]

\* INSERT ... VALUES (gen_random_uuid(), $1..$5) RETURNING *
InsertParticipant(rows, id, p) ==
  LET row == ParamsRow(id, p)
  IN  IF CheckViolation(row) THEN [code |-> "23514", rows |-> rows, returned |-> {}]
      ELSE IF UniqueViolation(rows, row.full_name, id)
           THEN [code |-> "23505", rows |-> rows, returned |-> {}]
      ELSE [code |-> "", rows |-> rows \cup {row}, returned |-> {row}]

\* UPDATE participants SET ... WHERE id = $6 RETURNING *
UpdateParticipant(rows, id, p) ==
  LET hit == SelectById(rows, id)
      new == {ParamsRow(row.id, p) : row \in hit}
  IN  IF \E row \in new : CheckViolation(row)
      THEN [code |-> "23514", rows |-> rows, returned |-> {}]
      ELSE IF \E row \in new : UniqueViolation(rows, row.full_name, row.id)
           THEN [code |-> "23505", rows |-> rows, returned |-> {}]
      ELSE [code |-> "", rows |-> (rows \ hit) \cup new, returned |-> new]

\* a delete that reports the row and leaves it in the table
DeleteParticipantKept(rows, id) ==
  [code |-> "", rows |-> rows, returned |-> SelectById(rows, id)]

\* DELETE FROM participants WHERE id = $1 RETURNING id
DeleteParticipant(rows, id) ==
  [code |-> "", rows |-> rows \ SelectById(rows, id), returned |-> SelectById(rows, id)]

(***************************************************************************)
(* Requests.  A body field that is absent is Undefined.                    *)
(***************************************************************************)
Body(full_name, age, first_semester, second_semester) ==
  [full_name |-> full_name, age |-> age,
   first_semester |-> first_semester, second_semester |-> second_semester]

NoBody == Body(Undefined, Undefined, Undefined, Undefined)

Request(method, id, body, sortBy) ==
  [method |-> method, id |-> id, body |-> body, sortBy |-> sortBy]

NoRequest == Request("", <<>>, NoBody, "")

allowedSortFields ==
  {"full_name", "age", "final_average", "first_semester", "second_semester"}

\* req.query.sortBy || 'full_name'; an absent parameter is ""
SortBy(q) == IF q.sortBy = "" THEN "full_name" ELSE q.sortBy

\* !v
Falsy(v) ==
  \/ v.t \in {"undefined", "null"}
  \/ v.t = "string" /\ v.s = <<>>
  \/ v.t = "number" /\ v.h = 0

\* a test of the required fields that takes a score of 0 for a missing one
RequiredMissingFalsy(body) ==
  \/ Falsy(body.full_name)
  \/ Falsy(body.age)
  \/ Falsy(body.first_semester)
  \/ Falsy(body.second_semester)

\* the test of the required fields in POST
RequiredMissing(body) ==
  \/ Falsy(body.full_name)
  \/ body.age = Undefined
  \/ body.first_semester = Undefined
  \/ body.second_semester = Undefined

RequiredReply ==
  Reply(400, <<"Campos obrigatórios:", "full_name", "age", "first_semester",
               "second_semester">>)

\* checks that let GET and DELETE through without validateUUID
PreCheckNoUUID(q) ==
  CASE q.method = "LIST" ->
         IF SortBy(q) \notin allowedSortFields
         THEN Reply(400, <<"Campo de ordenação inválido">>) ELSE NoResponse
    [] q.method = "HEALTH" -> NoResponse
    [] q.method \in {"GET", "DELETE"} -> NoResponse
    [] q.method = "PUT" ->
         IF validateUUID(q.id) # NoResponse THEN validateUUID(q.id)
         ELSE validateParticipantData(q.body)
    [] q.method = "POST" ->
         IF validateParticipantData(q.body) # NoResponse
         THEN validateParticipantData(q.body)
         ELSE IF RequiredMissing(q.body) THEN RequiredReply
         ELSE IF calculateFinalAverage(q.body.first_semester,
                                       q.body.second_semester).threw
              THEN Reply(400, <<"Notas devem ser números válidos">>)
         ELSE NoResponse

\* What a request is answered before its handler awaits anything: the
\* middlewares in route order, then the handler's own checks up to
\* pool.connect().  NoResponse when the handler goes on to connect.
PreCheck(q) ==
  CASE q.method = "LIST" ->
         IF SortBy(q) \notin allowedSortFields
         THEN Reply(400, <<"Campo de ordenação inválido">>) ELSE NoResponse
    [] q.method = "HEALTH" -> NoResponse
    [] q.method \in {"GET", "DELETE"} -> validateUUID(q.id)
    [] q.method = "PUT" ->
         IF validateUUID(q.id) # NoResponse THEN validateUUID(q.id)
         ELSE validateParticipantData(q.body)
    [] q.method = "POST" ->
         IF validateParticipantData(q.body) # NoResponse
         THEN validateParticipantData(q.body)
         ELSE IF RequiredMissing(q.body) THEN RequiredReply
         ELSE IF calculateFinalAverage(q.body.first_semester,
                                       q.body.second_semester).threw
              THEN Reply(400, <<"Notas devem ser números válidos">>)
         ELSE NoResponse

\* the parameters a statement is bound with
Params(full_name, age, first_semester, second_semester, final_average) ==
  [full_name |-> full_name, age |-> age, first_semester |-> first_semester,
   second_semester |-> second_semester, final_average |-> final_average]

NoParams == Params(Undefined, Undefined, Undefined, Undefined, Undefined)

\* POST: the trimmed name, the body's values and the average computed from them
CreateParams(body) ==
  Params(Str(Trim(body.full_name.s)), body.age, body.first_semester,
         body.second_semester,
         calculateFinalAverage(body.first_semester, body.second_semester).value)

\* a merge that fills an absent first_semester from the other semester
MergeFieldsCrossed(current, body) ==
  Params(IF body.full_name # Undefined THEN Str(Trim(body.full_name.s))
         ELSE current.full_name,
         IF body.age # Undefined THEN body.age ELSE current.age,
         IF body.first_semester # Undefined THEN body.first_semester
         ELSE current.second_semester,
         IF body.second_semester # Undefined THEN body.second_semester
         ELSE current.second_semester,
         Undefined)

\* PUT: the body's fields over the row read (final_average is set later)
MergeFields(current, body) ==
  Params(IF body.full_name # Undefined THEN Str(Trim(body.full_name.s))
         ELSE current.full_name,
         IF body.age # Undefined THEN body.age ELSE current.age,
         IF body.first_semester # Undefined THEN body.first_semester
         ELSE current.first_semester,
         IF body.second_semester # Undefined THEN body.second_semester
         ELSE current.second_semester,
         Undefined)

\* PUT: whether the name is looked up among the other participants
NameChanged(current, body) ==
  /\ body.full_name # Undefined
  /\ ToLowerCase(Trim(body.full_name.s)) # ToLowerCase(current.full_name.s)

(***************************************************************************)
(* The requests sent.                                                      *)
(***************************************************************************)
Ana == <<"A","n","a">>
AnaLower == <<"a","n","a">>
AnaUpperPadded == <<" ","A","N","A"," ">>
BobPadded == <<" ","B","o","b"," ">>
BobLower == <<"b","o","b">>
Blank == <<" "," ">>
LongName == [i \in 1..(MaxNameLength + 1) |-> "x"]

\* requests started in one behaviour
MaxRequests == 3

UnknownId == GenUUID(99)
UpperId == [i \in 1..36 |-> IF GenUUID(1)[i] = "e" THEN "E" ELSE GenUUID(1)[i]]
NilId == [i \in 1..36 |-> IF i \in {9, 14, 19, 24} THEN "-" ELSE "0"]
Version7Id == [GenUUID(1) EXCEPT ![15] = "7"]
VariantCId == [GenUUID(1) EXCEPT ![20] = "c"]
WordId == <<"i","n","v","a","l","i","d","-","u","u","i","d">>
ShortId == SubSeq(GenUUID(1), 1, 35)
LongId == GenUUID(1) \o <<"x">>
NonHexId == [GenUUID(1) EXCEPT ![1] = "g"]

WellFormedIds == {GenUUID(1), GenUUID(2), UnknownId, UpperId}
RejectedIds == {NilId, Version7Id, VariantCId, WordId, ShortId, LongId, NonHexId}

CreateAna == Body(Str(Ana), Num(2000), Num(100), Num(101))
CreateAnaLower == Body(Str(AnaLower), Num(2200), Num(900), Num(850))
CreateBob == Body(Str(BobPadded), Num(3000), Num(0), Num(1000))

ValidCreateBodies == {CreateAna, CreateAnaLower, CreateBob}

InvalidCreateBodies ==
  { Body(Str(Ana), Num(2500), Undefined, Undefined),
    Body(Undefined, Num(2000), Num(0), Num(1000)),
    Body(Str(Ana), Undefined, Num(100), Num(101)),
    Body(Str(Ana), Num(2000), Num(0), Undefined),
    Body(Undefined, Num(-500), Num(100), Undefined),
    Body(Str(Ana), Num(-500), Num(900), Num(850)),
    Body(Str(Ana), Num(250), Num(900), Num(850)),
    Body(Str(Ana), Num(2000), Str(<<"a","b","c">>), Num(850)),
    Body(Str(Ana), Num(2000), Num(900), Num(1100)),
    Body(Str(Blank), Num(2000), Num(900), Num(850)),
    Body(Null, Num(2000), Num(900), Num(850)),
    Body(Num(500), Num(2000), Num(900), Num(850)),
    Body(Str(LongName), Num(2000), Num(900), Num(850)) }

ValidUpdateBodies ==
  { NoBody,
    Body(Undefined, Num(2600), Undefined, Undefined),
    Body(Undefined, Undefined, Num(900), Undefined),
    Body(Undefined, Undefined, Num(900), Num(950)),
    Body(Str(AnaUpperPadded), Undefined, Undefined, Undefined),
    Body(Str(BobLower), Undefined, Undefined, Undefined),
    Body(Str(AnaLower), Undefined, Undefined, Undefined) }

InvalidUpdateBodies ==
  { Body(Undefined, Num(0), Undefined, Undefined),
    Body(Undefined, Undefined, Num(1100), Undefined),
    Body(Str(Blank), Undefined, Undefined, Undefined),
    Body(Str(Blank), Num(0), Undefined, Num(1100)) }

SortInputs == {"", "age", "created_at"}

Requests ==
  {Request("LIST", <<>>, NoBody, sb) : sb \in SortInputs}
  \cup {Request("HEALTH", <<>>, NoBody, "")}
  \cup {Request(m, id, NoBody, "") :
          m \in {"GET", "DELETE"}, id \in WellFormedIds \cup RejectedIds}
  \cup {Request("POST", <<>>, b, "") : b \in ValidCreateBodies \cup InvalidCreateBodies}
  \cup {Request("PUT", id, b, "") :
          id \in WellFormedIds, b \in ValidUpdateBodies \cup InvalidUpdateBodies}
  \cup {Request("PUT", id, b, "") : id \in RejectedIds, b \in {NoBody}}

(***************************************************************************)
(* The server: the table, the pool, and the requests in flight.  A         *)
(* handler runs from one await to the next without interruption; the       *)
(* statement it awaits takes effect in the step that resumes it.           *)
(***************************************************************************)
VARIABLES
  store,       \* the rows of participants
  nextId,      \* identifiers handed out by gen_random_uuid()
  checkedOut,  \* pool connections checked out
  reqs,        \* per slot, the request in flight
  started,     \* requests started so far
  deleted,     \* identifiers whose row a DELETE removed
  last,        \* the answer sent by the latest step, if it sent one
  avgIn, avgOut, \* the arguments and the result of calculateFinalAverage
  list,        \* the list handler: its query, its statements and its answer
  proc         \* the process: startup probe, listening, shutdown, exit

vars == <<store, nextId, checkedOut, reqs, started, deleted, last, avgIn, avgOut, list, proc>>

Slots == {1, 2}

Idle ==
  [pc |-> "idle", q |-> NoRequest, params |-> NoParams, client |-> FALSE,
   alone |-> FALSE, queries |-> 0, late |-> FALSE]

\* An answer: the request, the response, the row in its body, and what the
\* request did: whether it ran with no step of another request in between,
\* the table before the answering step, whether it held a pool connection,
\* the statements it issued, whether its id had been deleted when it started,
\* and whether the storage failed under it.
Event(q, resp, row, alone, before, client, queries, late, failed) ==
  [q |-> q, resp |-> resp, row |-> row, alone |-> alone, before |-> before,
   client |-> client, queries |-> queries, late |-> late, failed |-> failed]

NoEvent == Event(NoRequest, NoResponse, {}, FALSE, {}, FALSE, 0, FALSE, FALSE)

\* the requests sent two at a time: creates, and reads, updates and deletes
\* of the first participant created and of one never created
RacingRequests ==
  {Request("POST", <<>>, b, "") : b \in ValidCreateBodies}
  \cup {Request("PUT", GenUUID(1), b, "") : b \in ValidUpdateBodies \ {NoBody}}
  \cup {Request(m, GenUUID(1), NoBody, "") : m \in {"GET", "DELETE"}}
  \cup {Request("DELETE", UnknownId, NoBody, ""), Request("LIST", <<>>, NoBody, "age")}

\* Every request sent, with what the checks before pool.connect() answer it
\* and, for a POST that passes them, the parameters of its INSERT.
Arrivals ==
  {[q |-> q, answer |-> PreCheck(q),
    params |-> IF q.method = "POST" /\ PreCheck(q) = NoResponse
               THEN CreateParams(q.body) ELSE NoParams] : q \in Requests}

\* calculateFinalAverage of every pair of scores a handler can hold, as the
\* body sends them (numbers) or as the driver returns them (text)
ScoreInputs == {0, 100, 101, 850, 900, 950, 1000}
ScoreValues ==
  {Num(h) : h \in ScoreInputs} \cup {Str(DecimalText(h)) : h \in ScoreInputs}
Averages ==
  {<<a, b, calculateFinalAverage(a, b)>> : a \in ScoreValues, b \in ScoreValues}
FinalAverageOf(a, b) == (CHOOSE t \in Averages : t[1] = a /\ t[2] = b)[3]

RacingArrivals == {a \in Arrivals : a.q \in RacingRequests}

\* the list handler and the process when a specification leaves them out
NoList == [pc |-> "off"]
NoProc == [pc |-> "off"]

Init ==
  /\ store = {}
  /\ nextId = 0
  /\ checkedOut = 0
  /\ reqs = [r \in Slots |-> Idle]
  /\ started = 0
  /\ deleted = {}
  /\ last = NoEvent
  /\ avgIn = <<Undefined, Undefined>>
  /\ avgOut = Undefined
  /\ list = NoList
  /\ proc = NoProc

\* another request's handler ran: the requests in flight are no longer alone
Interrupt(x) == IF x.pc = "idle" THEN x ELSE [x EXCEPT !.alone = FALSE]

Step(r, new) == reqs' = [s \in Slots |-> IF s = r THEN new ELSE Interrupt(reqs[s])]

\* the handler awaits its next statement
Await(r, pc, params) ==
  /\ Step(r, [reqs[r] EXCEPT !.pc = pc, !.params = params,
                               !.queries = reqs[r].queries + 1])
  /\ last' = NoEvent
  /\ UNCHANGED <<checkedOut, started, avgIn, avgOut, list, proc>>

\* the handler answers; its finally block releases the client if it holds one
Answer(r, resp, row, failed) ==
  /\ Step(r, Idle)
  /\ checkedOut' = IF reqs[r].client THEN checkedOut - 1 ELSE checkedOut
  /\ last' = Event(reqs[r].q, resp, row, reqs[r].alone, store, reqs[r].client,
                   reqs[r].queries, reqs[r].late, failed)
  /\ UNCHANGED <<started, avgIn, avgOut, list, proc>>

\* a 500 that carries the message of the storage error
InternalErrorDetailed ==
  [status |-> 500, error |-> <<"Erro interno do servidor">>,
   details |-> <<"error.message">>]

InternalError == Reply(500, <<"Erro interno do servidor">>)
NotFound == Reply(404, <<"Participante não encontrado">>)

\* A request arrives and is answered by a middleware or by the handler's
\* checks before pool.connect().
Reject(r, a) ==
  /\ reqs[r].pc = "idle"
  /\ started < MaxRequests
  /\ a.answer # NoResponse
  /\ started' = started + 1
  /\ Step(r, Idle)
  /\ last' = Event(a.q, a.answer, {}, TRUE, store, FALSE, 0,
                   ToLowerCase(a.q.id) \in deleted, FALSE)
  /\ UNCHANGED <<store, nextId, checkedOut, deleted, avgIn, avgOut, list, proc>>

\* A request arrives, passes the checks and awaits pool.connect().
Accept(r, a) ==
  /\ reqs[r].pc = "idle"
  /\ started < MaxRequests
  /\ a.answer = NoResponse
  /\ started' = started + 1
  /\ Step(r, [pc |-> "connect", q |-> a.q, params |-> a.params,
              client |-> FALSE, alone |-> TRUE, queries |-> 0,
              late |-> ToLowerCase(a.q.id) \in deleted])
  /\ last' = NoEvent
  /\ UNCHANGED <<store, nextId, checkedOut, deleted, avgIn, avgOut, list, proc>>

FirstStatement(method) ==
  CASE method = "LIST" -> "list_select"
    [] method = "GET" -> "get_select"
    [] method = "POST" -> "post_check"
    [] method = "PUT" -> "put_select"
    [] method = "DELETE" -> "delete"
    [] method = "HEALTH" -> "health_select"

\* pool.connect() resolves and the handler issues its first statement
Connect(r) ==
  /\ reqs[r].pc = "connect"
  /\ Step(r, [reqs[r] EXCEPT !.pc = FirstStatement(reqs[r].q.method),
                               !.client = TRUE, !.queries = 1])
  /\ checkedOut' = checkedOut + 1
  /\ last' = NoEvent
  /\ UNCHANGED <<store, nextId, started, deleted, avgIn, avgOut, list, proc>>

\* pool.connect() rejects
ConnectFails(r) ==
  /\ reqs[r].pc = "connect"
  /\ reqs[r].q.method # "HEALTH"
  /\ Answer(r, InternalError, {}, TRUE)
  /\ UNCHANGED <<store, nextId, deleted>>

\* the statement awaited fails with an error that is no constraint violation
QueryFails(r) ==
  /\ reqs[r].pc \notin {"idle", "connect", "health_select"}
  /\ Answer(r, InternalError, {}, TRUE)
  /\ UNCHANGED <<store, nextId, deleted>>

ListSelect(r) ==
  /\ reqs[r].pc = "list_select"
  /\ Await(r, "list_count", reqs[r].params)
  /\ UNCHANGED <<store, nextId, deleted>>

ListCount(r) ==
  /\ reqs[r].pc = "list_count"
  /\ Answer(r, Reply(200, <<>>), {}, FALSE)
  /\ UNCHANGED <<store, nextId, deleted>>

GetSelect(r) ==
  /\ reqs[r].pc = "get_select"
  /\ LET rows == SelectById(store, reqs[r].q.id)
     IN  IF rows = {} THEN Answer(r, NotFound, {}, FALSE)
         ELSE Answer(r, Reply(200, <<>>), rows, FALSE)
  /\ UNCHANGED <<store, nextId, deleted>>

\* POST: the name lookup returns
PostCheck(r) ==
  /\ reqs[r].pc = "post_check"
  /\ IF SelectByName(store, reqs[r].params.full_name.s) # {}
     THEN Answer(r, Reply(409, <<"Já existe um participante com este nome">>),
                 {}, FALSE)
     ELSE Await(r, "post_insert", reqs[r].params)
  /\ UNCHANGED <<store, nextId, deleted>>

\* POST: the INSERT returns
PostInsert(r) ==
  /\ reqs[r].pc = "post_insert"
  /\ LET res == InsertParticipant(store, GenUUID(nextId + 1), reqs[r].params)
     IN  /\ store' = res.rows
         /\ nextId' = nextId + 1
         /\ CASE res.code = "" -> Answer(r, Reply(201, <<>>), res.returned, FALSE)
              [] res.code = "23505" ->
                   Answer(r, Reply(409, <<"Participante já existe">>), {}, FALSE)
              [] OTHER -> Answer(r, InternalError, {}, FALSE)
  /\ UNCHANGED deleted

\* PUT: what follows the lookups: the average, then the UPDATE is issued
PutRecompute(r, p) ==
  LET avg == FinalAverageOf(p.first_semester, p.second_semester)
  IN  IF avg.threw
      THEN Answer(r, Reply(400, <<"Notas devem ser números válidos">>), {}, FALSE)
      ELSE Await(r, "put_update", [p EXCEPT !.final_average = avg.value])

\* PUT: the SELECT of the current row returns
PutSelect(r) ==
  /\ reqs[r].pc = "put_select"
  /\ LET rows == SelectById(store, reqs[r].q.id)
     IN  IF rows = {} THEN Answer(r, NotFound, {}, FALSE)
         ELSE LET current == RowToJs(CHOOSE row \in rows : TRUE)
                  p == MergeFields(current, reqs[r].q.body)
              IN  IF NameChanged(current, reqs[r].q.body)
                  THEN Await(r, "put_namecheck", p)
                  ELSE PutRecompute(r, p)
  /\ UNCHANGED <<store, nextId, deleted>>

\* PUT: the lookup of the new name among the other participants returns
PutNameCheck(r) ==
  /\ reqs[r].pc = "put_namecheck"
  /\ IF SelectByNameExcept(store, reqs[r].params.full_name.s, reqs[r].q.id) # {}
     THEN Answer(r, Reply(409, <<"Já existe outro participante com este nome">>),
                 {}, FALSE)
     ELSE PutRecompute(r, reqs[r].params)
  /\ UNCHANGED <<store, nextId, deleted>>

\* PUT: the UPDATE returns; the body is result.rows[0]
PutUpdate(r) ==
  /\ reqs[r].pc = "put_update"
  /\ LET res == UpdateParticipant(store, reqs[r].q.id, reqs[r].params)
     IN  /\ store' = res.rows
         /\ CASE res.code = "" -> Answer(r, Reply(200, <<>>), res.returned, FALSE)
              [] res.code = "23505" ->
                   Answer(r, Reply(409, <<"Nome já existe para outro participante">>),
                          {}, FALSE)
              [] OTHER -> Answer(r, InternalError, {}, FALSE)
  /\ UNCHANGED <<nextId, deleted>>

\* DELETE: the DELETE returns
Delete(r) ==
  /\ reqs[r].pc = "delete"
  /\ LET res == DeleteParticipant(store, reqs[r].q.id)
     IN  /\ store' = res.rows
         /\ deleted' = deleted \cup {row.id : row \in res.returned}
         /\ IF res.returned = {} THEN Answer(r, NotFound, {}, FALSE)
            ELSE Answer(r, Reply(204, <<>>), {}, FALSE)
  /\ UNCHANGED nextId

\* GET /api/health.  The handler has no finally block: client.release() is
\* the statement after the query, inside the try.
Healthy == Reply(200, <<"healthy">>)
Unhealthy == Reply(503, <<"unhealthy", "error.message">>)

\* the handler answers without passing by a release
AnswerUnreleased(r, resp, failed) ==
  /\ Step(r, Idle)
  /\ last' = Event(reqs[r].q, resp, {}, reqs[r].alone, store, reqs[r].client,
                   reqs[r].queries, reqs[r].late, failed)
  /\ UNCHANGED <<store, nextId, checkedOut, started, deleted, avgIn, avgOut, list, proc>>

\* SELECT 1 returns: client.release(), then 200
HealthSelect(r) ==
  /\ reqs[r].pc = "health_select"
  /\ Answer(r, Healthy, {}, FALSE)
  /\ UNCHANGED <<store, nextId, deleted>>

\* pool.connect() rejects: the catch answers 503
HealthConnectFails(r) ==
  /\ reqs[r].pc = "connect"
  /\ reqs[r].q.method = "HEALTH"
  /\ AnswerUnreleased(r, Unhealthy, TRUE)

\* SELECT 1 fails: the catch answers 503; the client is not released
HealthQueryFails(r) ==
  /\ reqs[r].pc = "health_select"
  /\ AnswerUnreleased(r, Unhealthy, TRUE)

Health(r) == HealthSelect(r) \/ HealthConnectFails(r) \/ HealthQueryFails(r)

\* the steps of a request in flight
Handle(r) ==
  \/ Connect(r)
  \/ ConnectFails(r)
  \/ QueryFails(r)
  \/ ListSelect(r)
  \/ ListCount(r)
  \/ GetSelect(r)
  \/ PostCheck(r)
  \/ PostInsert(r)
  \/ PutSelect(r)
  \/ PutNameCheck(r)
  \/ PutUpdate(r)
  \/ Delete(r)

\* Requests that pass the checks, handled two at a time.
Next ==
  \E r \in Slots :
    \/ \E a \in RacingArrivals : Accept(r, a)
    \/ Handle(r)

\* Every request, handled one at a time.
NextValidation ==
  \/ \E a \in Arrivals : Reject(1, a)
  \/ \E a \in Arrivals : Accept(1, a)
  \/ Handle(1)
  \/ Health(1)

Spec == Init /\ [][Next]_vars

SpecValidation == Init /\ [][NextValidation]_vars

(***************************************************************************)
(* GET /api/participants on its own, one request at a time over a table    *)
(* that does not change: the query parameters, the two statements, the     *)
(* page answered.                                                          *)
(***************************************************************************)
\* parseInt of a query parameter: leading blanks, a sign, decimal digits
parseInt(v) ==
  IF v = Undefined THEN [nan |-> TRUE, n |-> 0]
  ELSE LET t   == SubSeq(v.s, LeadingBlanks(v.s) + 1, Len(v.s))
           neg == t # <<>> /\ t[1] = "-"
           u   == IF t # <<>> /\ t[1] \in {"-", "+"} THEN SubSeq(t, 2, Len(t)) ELSE t
           nd  == DigitRun(u)
       IN  IF nd = 0 THEN [nan |-> TRUE, n |-> 0]
           ELSE [nan |-> FALSE,
                 n |-> IF neg THEN 0 - DigitsToNat(u, nd) ELSE DigitsToNat(u, nd)]

\* x || d, for the result x of parseInt: NaN and 0 are falsy
OrDefault(x, d) == IF x.nan \/ x.n = 0 THEN d ELSE x.n

DefaultPage == 1
DefaultLimit == 50
MaxLimit == 100

MathMin(a, b) == IF a < b THEN a ELSE b

PageOf(query) == OrDefault(parseInt(query.page), DefaultPage)
LimitOf(query) == MathMin(OrDefault(parseInt(query.limit), DefaultLimit), MaxLimit)
OffsetOf(query) == (PageOf(query) - 1) * LimitOf(query)

\* a direction that takes "desc" in any letter case
SortOrderAnyCase(query) ==
  IF query.sortOrder \in {"desc", "DESC", "Desc"} THEN "DESC" ELSE "ASC"

\* req.query.sortOrder === 'desc' ? 'DESC' : 'ASC'
SortOrder(query) == IF query.sortOrder = "desc" THEN "DESC" ELSE "ASC"

Query(page, limit, sortBy, sortOrder) ==
  [page |-> page, limit |-> limit, sortBy |-> sortBy, sortOrder |-> sortOrder]

\* The value ORDER BY compares.  The names in the tables below differ in
\* their first letter, which decides their order in every collation that
\* ignores case at the first level.
LetterRank(c) == CHOOSE i \in DOMAIN LowerChars : LowerChars[i] = LowerChar(c)
SortKey(row, column) ==
  CASE column = "full_name" -> LetterRank(row.full_name[1])
    [] column = "age" -> row.age
    [] column = "first_semester" -> row.first_semester
    [] column = "second_semester" -> row.second_semester
    [] column = "final_average" -> row.final_average

\* SELECT * FROM participants ORDER BY column direction: the statement names
\* no second sort key, so rows with equal keys come in any order
Orderings(rows, column, direction) ==
  {o \in [1..Cardinality(rows) -> rows] :
     /\ \A i \in DOMAIN o : \A j \in DOMAIN o : i # j => o[i] # o[j]
     /\ \A i \in DOMAIN o : \A j \in DOMAIN o :
          i < j => IF direction = "DESC"
                   THEN SortKey(o[i], column) >= SortKey(o[j], column)
                   ELSE SortKey(o[i], column) <= SortKey(o[j], column)}

\* LIMIT $1 OFFSET $2 with a negative value is an error of the statement
LimitRejected(limit, offset) == limit < 0 \/ offset < 0
LimitOffset(order, limit, offset) ==
  SubSeq(order, offset + 1, MathMin(offset + limit, Len(order)))

\* Math.ceil(totalCount / limit), for a positive limit
TotalPages(total, limit) == (total + limit - 1) \div limit

PageResponse(status, data, page, limit, total) ==
  [status |-> status, data |-> data, page |-> page, limit |-> limit,
   total |-> total,
   totalPages |-> IF status = 200 THEN TotalPages(total, limit) ELSE 0]
NoPage == PageResponse(0, <<>>, 0, 0, 0)

ListIdle(query) ==
  [pc |-> "idle", query |-> query, page |-> 0, limit |-> 0, offset |-> 0,
   column |-> "", direction |-> "", client |-> FALSE, queries |-> 0,
   rows |-> <<>>, resp |-> NoPage, seen |-> <<>>, sent |-> 0]

\* the participants of the tables listed: two of them of the same age
Cid == <<"C","i","d">>
ListRow(k, body) == ParamsRow(GenUUID(k), CreateParams(body))
ListRows ==
  << ListRow(1, CreateAna),
     ListRow(2, Body(Str(BobLower), Num(2000), Num(900), Num(950))),
     ListRow(3, Body(Str(Cid), Num(2200), Num(900), Num(850))) >>
ListTables == {{}, {ListRows[1], ListRows[2]}, {ListRows[1], ListRows[2], ListRows[3]}}

PageInputs ==
  {Undefined, Str(<<"0">>), Str(<<"-","1">>), Str(<<"1">>), Str(<<"2">>),
   Str(<<"3">>), Str(<<"a","b","c">>)}
LimitInputs ==
  {Undefined, Str(<<"0">>), Str(<<"-","5">>), Str(<<"1">>), Str(<<"2">>),
   Str(<<"1","0","1">>), Str(<<"a","b","c">>)}
SortOrderInputs == {"", "desc", "DESC"}

MaxListRequests == 3

InitList ==
  /\ store \in ListTables
  /\ nextId = 3
  /\ checkedOut = 0
  /\ reqs = [r \in Slots |-> Idle]
  /\ started = 0
  /\ deleted = {}
  /\ last = NoEvent
  /\ avgIn = <<Undefined, Undefined>>
  /\ avgOut = Undefined
  /\ proc = NoProc
  /\ \E limit \in LimitInputs, sb \in SortInputs, so \in SortOrderInputs :
       list = ListIdle(Query(Undefined, limit, sb, so))

ListFrame == UNCHANGED <<store, nextId, reqs, started, deleted, last, avgIn, avgOut, proc>>

\* the handler answers; its finally block releases the client if it holds one
PageAnswer(resp) ==
  /\ list' = [list EXCEPT !.pc = "idle", !.resp = resp, !.client = FALSE,
                          !.rows = <<>>,
                          !.seen = IF resp.status = 200 /\ list.page = Len(list.seen) + 1
                                   THEN Append(list.seen, resp.data)
                                   ELSE list.seen]
  /\ checkedOut' = IF list.client THEN checkedOut - 1 ELSE checkedOut
  /\ ListFrame

\* a request arrives: the parameters are read, and a sortBy outside the
\* allow-list is answered 400
PageArrive(page) ==
  /\ list.pc = "idle"
  /\ list.sent < MaxListRequests
  /\ LET query == [list.query EXCEPT !.page = page]
         next  == [list EXCEPT !.query = query, !.sent = list.sent + 1,
                               !.page = PageOf(query), !.limit = LimitOf(query),
                               !.offset = OffsetOf(query), !.queries = 0,
                               !.column = "", !.direction = "", !.resp = NoPage]
     IN  IF SortBy(query) \notin allowedSortFields
         THEN list' = [next EXCEPT !.resp = PageResponse(400, <<>>, 0, 0, 0)]
         ELSE list' = [next EXCEPT !.pc = "connect"]
  /\ UNCHANGED checkedOut
  /\ ListFrame

\* pool.connect() resolves and the SELECT is issued
PageConnect ==
  /\ list.pc = "connect"
  /\ list' = [list EXCEPT !.pc = "select", !.client = TRUE, !.queries = 1,
                          !.column = SortBy(list.query),
                          !.direction = SortOrder(list.query)]
  /\ checkedOut' = checkedOut + 1
  /\ ListFrame

\* pool.connect() or a statement rejects: the catch answers 500
PageFails ==
  /\ list.pc \in {"connect", "select", "count"}
  /\ PageAnswer(PageResponse(500, <<>>, 0, 0, 0))

\* the SELECT returns its rows, or is refused for a negative LIMIT or OFFSET
PageSelect ==
  /\ list.pc = "select"
  /\ IF LimitRejected(list.limit, list.offset)
     THEN PageAnswer(PageResponse(500, <<>>, 0, 0, 0))
     ELSE /\ \E o \in Orderings(store, list.column, list.direction) :
               list' = [list EXCEPT !.pc = "count", !.queries = 2,
                          !.rows = [i \in DOMAIN LimitOffset(o, list.limit, list.offset)
                                      |-> LimitOffset(o, list.limit, list.offset)[i].id]]
          /\ UNCHANGED checkedOut
          /\ ListFrame

\* SELECT COUNT(*) returns: 200 with the page and the pagination
PageCount ==
  /\ list.pc = "count"
  /\ PageAnswer(PageResponse(200, list.rows, list.page, list.limit,
                             Cardinality(store)))

NextList ==
  \/ \E page \in PageInputs : PageArrive(page)
  \/ PageConnect
  \/ PageFails
  \/ PageSelect
  \/ PageCount

SpecList == InitList /\ [][NextList]_vars

(***************************************************************************)
(* The process: testConnection at startup, app.listen, and gracefulShutdown *)
(* on SIGINT, SIGTERM and uncaughtException.                                *)
(***************************************************************************)
maxRetries == 5
DelayStep == 1000
DelayCap == 10000

\* a catch that does not count the failed attempt
RetriesKept(retries) == retries

\* retries--
RetriesLeft(retries) == retries - 1

\* Math.min(1000 * (maxRetries - retries + 1), 10000), retries already lowered
ProbeDelay(retries) == MathMin(DelayStep * (maxRetries - retries + 1), DelayCap)

Running == -1
ShutdownEvents == {"SIGINT", "SIGTERM", "UNCAUGHT_EXCEPTION"}

MaxSignals == 2
MaxServed == 2

\* The module is loaded: testConnection() has called pool.connect() for its
\* first attempt, and the handlers of the signals are registered.
InitProcess ==
  /\ store = {}
  /\ nextId = 0
  /\ checkedOut = 0
  /\ reqs = [r \in Slots |-> Idle]
  /\ started = 0
  /\ deleted = {}
  /\ last = NoEvent
  /\ avgIn = <<Undefined, Undefined>>
  /\ avgOut = Undefined
  /\ list = NoList
  /\ proc = [pc |-> "connect", retries |-> maxRetries, attempts |-> 1,
             succeeded |-> FALSE, delays |-> <<>>, listening |-> FALSE,
             idle |-> 0, served |-> 0, signals |-> 0, ending |-> FALSE,
             drained |-> FALSE,
             exit |-> Running, exitBy |-> ""]

ProcessFrame ==
  UNCHANGED <<store, nextId, reqs, started, deleted, last, avgIn, avgOut, list>>

\* the catch of testConnection: one retry less, then the wait before the
\* next attempt, or `return false` and process.exit(1) in the then-callback
AttemptFailed ==
  LET left == RetriesLeft(proc.retries)
  IN  IF left > 0
      THEN proc' = [proc EXCEPT !.retries = left, !.pc = "wait",
                                !.delays = Append(proc.delays, ProbeDelay(left))]
      ELSE proc' = [proc EXCEPT !.retries = left, !.pc = "done",
                                !.exit = 1, !.exitBy = "startup"]

\* pool.connect() resolves and SELECT NOW() is issued; a pool on which end()
\* was called hands out no client
ProbeConnect ==
  /\ proc.exit = Running /\ proc.pc = "connect" /\ ~proc.ending
  /\ proc' = [proc EXCEPT !.pc = "query"]
  /\ checkedOut' = checkedOut + 1
  /\ ProcessFrame

\* pool.connect() rejects
ProbeConnectFails ==
  /\ proc.exit = Running /\ proc.pc = "connect"
  /\ AttemptFailed
  /\ UNCHANGED checkedOut
  /\ ProcessFrame

\* SELECT NOW() returns: client.release(), return true, app.listen
ProbeQuery ==
  /\ proc.exit = Running /\ proc.pc = "query"
  /\ proc' = [proc EXCEPT !.pc = "done", !.succeeded = TRUE, !.listening = TRUE,
                          !.idle = proc.idle + 1]
  /\ checkedOut' = checkedOut - 1
  /\ ProcessFrame

\* SELECT NOW() rejects: the catch runs, and the client is not released
ProbeQueryFails ==
  /\ proc.exit = Running /\ proc.pc = "query"
  /\ AttemptFailed
  /\ UNCHANGED checkedOut
  /\ ProcessFrame

\* the timer of the wait fires: the next attempt calls pool.connect()
ProbeRetry ==
  /\ proc.exit = Running /\ proc.pc = "wait"
  /\ proc' = [proc EXCEPT !.pc = "connect", !.attempts = proc.attempts + 1]
  /\ UNCHANGED checkedOut
  /\ ProcessFrame

\* the listening server serves a request
Serve ==
  /\ proc.exit = Running /\ proc.listening
  /\ proc.served < MaxServed
  /\ proc' = [proc EXCEPT !.served = proc.served + 1]
  /\ UNCHANGED checkedOut
  /\ ProcessFrame

\* the clients the pool holds: connecting, checked out or idle
PoolClients ==
  checkedOut + proc.idle + (IF proc.pc = "connect" THEN 1 ELSE 0)

\* gracefulShutdown(signal): pool.end() is called and awaited.  Pool.end()
\* of pg rejects at once when end() was called before ("Called end on pool
\* more than once"), and the catch calls process.exit(1); called on a pool
\* that holds no client it resolves at once, and process.exit(0) follows.
Shutdown(signal) ==
  /\ proc.exit = Running
  /\ proc.signals < MaxSignals
  /\ IF proc.ending
     THEN proc' = [proc EXCEPT !.signals = proc.signals + 1,
                               !.exit = 1, !.exitBy = signal]
     ELSE IF PoolClients = 0
     THEN proc' = [proc EXCEPT !.signals = proc.signals + 1, !.ending = TRUE,
                               !.drained = TRUE, !.exit = 0, !.exitBy = signal]
     ELSE proc' = [proc EXCEPT !.signals = proc.signals + 1, !.ending = TRUE]
  /\ UNCHANGED checkedOut
  /\ ProcessFrame

\* pool.end() resolves, once every client is back and closed: process.exit(0)
PoolEnded ==
  /\ proc.exit = Running
  /\ proc.ending /\ ~proc.drained
  /\ checkedOut = 0 /\ proc.pc # "connect"
  /\ proc' = [proc EXCEPT !.drained = TRUE, !.idle = 0, !.exit = 0,
                          !.exitBy = "pool.end"]
  /\ UNCHANGED checkedOut
  /\ ProcessFrame

NextProcess ==
  \/ ProbeConnect
  \/ ProbeConnectFails
  \/ ProbeQuery
  \/ ProbeQueryFails
  \/ ProbeRetry
  \/ Serve
  \/ \E signal \in ShutdownEvents : Shutdown(signal)
  \/ PoolEnded

SpecProcess == InitProcess /\ [][NextProcess]_vars

(***************************************************************************)
(* calculateFinalAverage on its own: every pair of the inputs below.       *)
(***************************************************************************)
AverageInputs ==
  {Num(h) : h \in ScoreInputs \cup {29, 750}}
  \cup {Str(<<"a","b","c">>), Str(<<"8",".","5","x">>), Undefined}

InitAverage ==
  /\ store = {}
  /\ nextId = 0
  /\ checkedOut = 0
  /\ reqs = [r \in Slots |-> Idle]
  /\ started = 0
  /\ deleted = {}
  /\ last = NoEvent
  /\ avgIn \in AverageInputs \X AverageInputs
  /\ avgOut = Undefined
  /\ list = NoList
  /\ proc = NoProc

Compute ==
  /\ avgOut = Undefined
  /\ avgOut' = calculateFinalAverage(avgIn[1], avgIn[2])
  /\ UNCHANGED <<store, nextId, checkedOut, reqs, started, deleted, last, avgIn, list, proc>>

SpecAverage == InitAverage /\ [][Compute]_vars

(***************************************************************************)
(* Properties.  They read the table and the latest answer.                 *)
(***************************************************************************)
SameIgnoringCase(a, b) == ToLowerCase(a) = ToLowerCase(b)

\* the mean of two scores in hundredths, rounded half-up to a hundredth
HalfUpMean(a, b) == (a + b + 1) \div 2

Answered(method) == last.q.method = method /\ last.resp.status # 0

\* the rows of the table, before the answering step and now, that the
\* answered request names
TargetBefore == SelectById(last.before, last.q.id)
TargetNow == SelectById(store, last.q.id)

\* C1: no two stored participants have names that are equal ignoring case,
\* whatever the interleaving of the requests.
C1_NoDuplicateNames ==
  \A a \in store : \A b \in store :
    a # b => ~SameIgnoringCase(a.full_name, b.full_name)

\* C2: a create handled without another request in between is answered 409
\* and changes nothing when its trimmed name equals, ignoring case, a stored
\* name; otherwise it is answered 201 and adds exactly one row with a new id.
C2_CreateConflictOrInsert ==
  (Answered("POST") /\ last.alone /\ ~last.failed /\ last.client) =>
    LET name == Trim(last.q.body.full_name.s)
    IN  IF \E row \in last.before : SameIgnoringCase(row.full_name, name)
        THEN last.resp.status = 409 /\ store = last.before
        ELSE /\ last.resp.status = 201
             /\ Cardinality(store) = Cardinality(last.before) + 1
             /\ last.before \subseteq store
             /\ \A row \in store \ last.before :
                  /\ row.full_name = name
                  /\ row.id \notin {old.id : old \in last.before} \cup deleted
                  /\ last.row = {row}

C2_Witness ==
  /\ Answered("POST") /\ last.alone /\ last.resp.status = 409
  /\ last.q.body = CreateAnaLower
  /\ \E row \in store : row.full_name = Ana

\* C3: every stored row's final_average is the half-up rounded mean of the
\* scores stored in the same row.
C3_AverageConsistent ==
  \A row \in store :
    row.final_average = HalfUpMean(row.first_semester, row.second_semester)

\* C4: for scores in [0,10] with at most two decimals calculateFinalAverage
\* returns their mean rounded half-up to two decimals, and it signals an error
\* when an input is not numeric.
C4_HalfUpAverage ==
  avgOut # Undefined =>
    IF avgIn[1].t = "number" /\ avgIn[2].t = "number"
    THEN ~avgOut.threw /\ avgOut.value = Num(HalfUpMean(avgIn[1].h, avgIn[2].h))
    ELSE avgOut.threw

\* C5: an update answered 200, handled without another request in between,
\* sets the fields its body carries, keeps every other field of the row as
\* stored (the average too when the body carries no score), keeps the id and
\* leaves every other row alone.
C5_UpdateFrame ==
  (Answered("PUT") /\ last.alone /\ last.resp.status = 200) =>
    /\ Cardinality(TargetBefore) = 1 /\ Cardinality(TargetNow) = 1
    /\ store \ TargetNow = last.before \ TargetBefore
    /\ last.row = TargetNow
    /\ \A old \in TargetBefore : \A new \in TargetNow :
         LET b == last.q.body
         IN  /\ new.id = old.id
             /\ new.full_name = IF b.full_name = Undefined THEN old.full_name
                                ELSE Trim(b.full_name.s)
             /\ 100 * new.age = IF b.age = Undefined THEN 100 * old.age ELSE b.age.h
             /\ new.first_semester = IF b.first_semester = Undefined
                                     THEN old.first_semester ELSE b.first_semester.h
             /\ new.second_semester = IF b.second_semester = Undefined
                                      THEN old.second_semester ELSE b.second_semester.h
             /\ (b.first_semester = Undefined /\ b.second_semester = Undefined)
                  => new.final_average = old.final_average

C5_Witness ==
  /\ Answered("PUT") /\ last.alone /\ last.resp.status = 200
  /\ last.q.body = Body(Undefined, Num(2600), Undefined, Undefined)
  /\ \E row \in TargetNow : row.age = 26 /\ row.full_name = Ana

\* C6: an update, handled without another request in between, whose new name
\* equals ignoring case the name of a different participant is answered 409
\* and changes nothing; one whose new name differs from the row's own name
\* only in case or surrounding blanks is not answered 409.
C6_UpdateNameConflict ==
  (Answered("PUT") /\ last.alone /\ ~last.failed
     /\ last.q.body.full_name # Undefined /\ TargetBefore # {}) =>
    LET name == Trim(last.q.body.full_name.s)
    IN  /\ (\E other \in last.before \ TargetBefore :
              SameIgnoringCase(other.full_name, name))
             => last.resp.status = 409 /\ store = last.before
        /\ (\E own \in TargetBefore : SameIgnoringCase(own.full_name, name))
             => last.resp.status # 409

\* C7: a delete of a stored id is answered 204 and removes that row and no
\* other; a delete of an id that is not stored is answered 404 and changes
\* nothing; a get, update or delete that arrives after its id was deleted is
\* answered 404.
C7_DeleteThenNotFound ==
  /\ (Answered("DELETE") /\ ~last.failed) =>
       IF TargetBefore # {}
       THEN /\ last.resp.status = 204
            /\ Cardinality(TargetBefore) = 1
            /\ store = last.before \ TargetBefore
       ELSE last.resp.status = 404 /\ store = last.before
  /\ (last.q.method \in {"GET", "PUT", "DELETE"} /\ last.late /\ ~last.failed) =>
       last.resp.status = 404 /\ store = last.before

C7_Witness ==
  /\ Answered("GET") /\ last.late /\ last.resp.status = 404
  /\ last.q.id = GenUUID(1)
  /\ GenUUID(1) \in deleted

\* the five groups of hexadecimal digits, of lengths 8-4-4-4-12
HexDigits ==
  {"0","1","2","3","4","5","6","7","8","9","a","b","c","d","e","f",
   "A","B","C","D","E","F"}
HexGroup(id, from, to) == \A i \in from..to : id[i] \in HexDigits
UUIDShaped(id) ==
  /\ Len(id) = 36
  /\ HexGroup(id, 1, 8) /\ id[9] = "-"
  /\ HexGroup(id, 10, 13) /\ id[14] = "-"
  /\ HexGroup(id, 15, 18) /\ id[19] = "-"
  /\ HexGroup(id, 20, 23) /\ id[24] = "-"
  /\ HexGroup(id, 25, 36)

\* UUID-shaped, with a version digit from 1 to 5 and a variant digit among
\* 8, 9, a, b
VersionedUUID(id) ==
  /\ UUIDShaped(id)
  /\ id[15] \in {"1","2","3","4","5"}
  /\ id[20] \in {"8","9","a","b","A","B"}

RequiredFields == {"full_name", "age", "first_semester", "second_semester"}
MissingFields(body) == {f \in RequiredFields : body[f] = Undefined}

\* a body field that is present with the wrong type or out of range
BadName(v) ==
  v # Undefined /\ (v.t # "string" \/ Trim(v.s) = <<>> \/ Len(Trim(v.s)) > 255)
BadAge(v) ==
  v # Undefined /\ (v.t # "number" \/ v.h % 100 # 0 \/ v.h < 100 \/ v.h > 15000)
BadScore(v) == v # Undefined /\ (v.t # "number" \/ v.h < 0 \/ v.h > 1000)
BadBody(body) ==
  \/ BadName(body.full_name) \/ BadAge(body.age)
  \/ BadScore(body.first_semester) \/ BadScore(body.second_semester)

\* the requests the validation has to reject
BadInput(q) ==
  \/ q.method \in {"GET", "PUT", "DELETE"} /\ ~UUIDShaped(q.id)
  \/ q.method = "LIST" /\ q.sortBy # "" /\ q.sortBy \notin allowedSortFields
  \/ q.method = "POST" /\ MissingFields(q.body) # {}
  \/ q.method \in {"POST", "PUT"} /\ BadBody(q.body)

\* C8: a request the validation has to reject is answered 400, and a request
\* answered 400 acquired no pool connection, issued no statement and left the
\* table as it was.
C8_RejectBeforeStorage ==
  last.resp.status # 0 =>
    /\ BadInput(last.q) => last.resp.status = 400
    /\ last.resp.status = 400 =>
         ~last.client /\ last.queries = 0 /\ store = last.before

C8_Witness ==
  /\ Answered("PUT") /\ last.resp.status = 400
  /\ last.q.id = GenUUID(1) /\ BadBody(last.q.body)
  /\ store # {} /\ ~last.client

IdMessage == <<"ID deve ser um UUID válido">>

\* C9 (as stated): for GET, PUT and DELETE every UUID-shaped id passes the id
\* validation and is answered 404 when no row has it; the id is rejected with
\* 400 only when it is not UUID-shaped.
C9_ShapedIdsPass ==
  (last.q.method \in {"GET", "PUT", "DELETE"} /\ last.resp.status # 0) =>
    IF UUIDShaped(last.q.id)
    THEN /\ last.resp.error # IdMessage
         /\ (TargetBefore = {} /\ ~last.failed /\ ~BadBody(last.q.body))
              => last.resp.status = 404
    ELSE last.resp.status = 400 /\ last.resp.error = IdMessage

\* C9 (amended): for GET, PUT and DELETE an id passes the id validation exactly
\* when it is UUID-shaped with a version digit from 1 to 5 and a variant digit
\* among 8, 9, a, b; such an id is answered 404 when no row has it, and every
\* other id is answered 400.
C9_VersionedIdsPass ==
  (last.q.method \in {"GET", "PUT", "DELETE"} /\ last.resp.status # 0) =>
    IF VersionedUUID(last.q.id)
    THEN /\ last.resp.error # IdMessage
         /\ (TargetBefore = {} /\ ~last.failed /\ ~BadBody(last.q.body))
              => last.resp.status = 404
    ELSE last.resp.status = 400 /\ last.resp.error = IdMessage

C9_Witness ==
  /\ Answered("GET") /\ last.q.id = UnknownId /\ last.resp.status = 404
  /\ last.client /\ store # {}

\* the required fields an answer names, in its error or in its details
FieldsNamed(resp) ==
  {f \in RequiredFields :
     \/ \E i \in 1..Len(resp.error) : resp.error[i] = f
     \/ \E i \in 1..Len(resp.details) : resp.details[i][1] = f}

\* C10 (as stated): a create that misses a required field is answered 400 with
\* an error that lists the missing fields, and stores nothing; a score of 0
\* counts as supplied.
C10_MissingFieldsListed ==
  Answered("POST") =>
    /\ MissingFields(last.q.body) # {} =>
         /\ last.resp.status = 400 /\ store = last.before
         /\ FieldsNamed(last.resp) = MissingFields(last.q.body)
    /\ (MissingFields(last.q.body) = {} /\ ~BadBody(last.q.body))
         => last.resp.status # 400

\* C10 (amended): a create that misses a required field is answered 400 and
\* stores nothing; when the fields it does carry are valid the error names all
\* four required fields, whichever are missing; a score of 0 counts as
\* supplied.
C10_MissingFieldsRejected ==
  Answered("POST") =>
    /\ MissingFields(last.q.body) # {} =>
         /\ last.resp.status = 400 /\ store = last.before /\ ~last.client
         /\ ~BadBody(last.q.body) => FieldsNamed(last.resp) = RequiredFields
    /\ (MissingFields(last.q.body) = {} /\ ~BadBody(last.q.body))
         => last.resp.status # 400

C10_Witness ==
  /\ Answered("POST") /\ last.resp.status = 400
  /\ last.q.body = Body(Str(Ana), Num(2000), Num(0), Undefined)
  /\ FieldsNamed(last.resp) = RequiredFields

\* the fields of a body that are present and break their rule
OffendingFields(body) ==
  {f \in RequiredFields :
     \/ f = "full_name" /\ BadName(body.full_name)
     \/ f = "age" /\ BadAge(body.age)
     \/ f \in {"first_semester", "second_semester"} /\ BadScore(body[f])}

ValidationError == <<"Dados inválidos">>

RowInRange(row) ==
  /\ Len(row.full_name) >= 1 /\ Len(row.full_name) <= 255
  /\ row.full_name = Trim(row.full_name)
  /\ row.age >= 1 /\ row.age <= 150
  /\ row.first_semester >= 0 /\ row.first_semester <= 1000
  /\ row.second_semester >= 0 /\ row.second_semester <= 1000

\* C11: a create or update body passes the body validator exactly when every
\* field it carries satisfies its rule; otherwise the answer is 400 with one
\* message per offending field; and no stored row holds a value out of range.
C11_ValidatorExact ==
  /\ (last.q.method \in {"POST", "PUT"} /\ last.resp.status # 0
        /\ (last.q.method = "PUT" => VersionedUUID(last.q.id))) =>
       IF OffendingFields(last.q.body) # {}
       THEN /\ last.resp.status = 400 /\ last.resp.error = ValidationError
            /\ Len(last.resp.details) = Cardinality(OffendingFields(last.q.body))
            /\ {last.resp.details[i][1] : i \in 1..Len(last.resp.details)}
                 = OffendingFields(last.q.body)
            /\ store = last.before
       ELSE last.resp.error # ValidationError
  /\ \A row \in store : RowInRange(row)

C11_Witness ==
  /\ Answered("PUT") /\ last.resp.status = 400
  /\ Cardinality(OffendingFields(last.q.body)) = 3
  /\ Len(last.resp.details) = 3
  /\ store # {}

\* C12: the connections checked out of the pool are those held by the
\* requests in flight, so every connection acquired is released once when its
\* handler exits, and none stays checked out when no request is in flight.
C12_ReleasedOnEveryPath ==
  checkedOut = Cardinality({r \in Slots : reqs[r].client})

\* C13: whatever the page and limit parameters, the limit passed to the
\* SELECT and the limit reported in the pagination lie in [1,100], and the
\* offset passed to the SELECT is (page - 1) * limit.
C13_LimitClamped ==
  /\ list.pc \in {"select", "count"} =>
       /\ list.limit >= 1 /\ list.limit <= 100
       /\ list.offset = (list.page - 1) * list.limit
  /\ (list.pc = "idle" /\ list.resp.status = 200) =>
       list.resp.limit >= 1 /\ list.resp.limit <= 100

SortAllowList ==
  {"full_name", "age", "final_average", "first_semester", "second_semester"}

\* C14: a list request whose sortBy is outside the allow-list is answered 400
\* and issues no statement, and no other list request is answered 400; the
\* column placed in ORDER BY is allow-listed; the direction is DESC exactly
\* when sortOrder is "desc".
C14_SortAllowList ==
  /\ (list.pc = "idle" /\ list.sent > 0) =>
       /\ (list.query.sortBy # "" /\ list.query.sortBy \notin SortAllowList)
            <=> list.resp.status = 400
       /\ list.resp.status = 400 =>
            list.queries = 0 /\ list.column = "" /\ ~list.client
  /\ (list.pc \in {"select", "count"}) =>
       /\ list.column \in SortAllowList
       /\ list.direction \in {"ASC", "DESC"}
       /\ list.direction = "DESC" <=> list.query.sortOrder = "desc"

C14_Witness ==
  /\ list.pc = "idle" /\ list.resp.status = 400
  /\ list.query.sortBy = "created_at"
  /\ list.queries = 0 /\ store # {}

\* the number of times an id comes in the pages seen
Occurrences(id) ==
  Cardinality({<<p, i>> \in (1..Len(list.seen)) \X (1..Cardinality(store)) :
                 i <= Len(list.seen[p]) /\ list.seen[p][i] = id})

\* C15: over an unchanged table, the pages 1..totalPages requested with the
\* same limit, sortBy and sortOrder hold every stored participant exactly
\* once, ties on the sort field included.
C15_PagesPartition ==
  (list.pc = "idle" /\ list.limit > 0 /\ store # {}
     /\ Len(list.seen) = TotalPages(Cardinality(store), list.limit)) =>
    \A row \in store : Occurrences(row.id) = 1

\* the statements a handler issues at most
StatementsOf(method) ==
  CASE method = "LIST" -> 2
    [] method = "POST" -> 2
    [] method = "PUT" -> 3
    [] OTHER -> 1

\* C16: a request under which pool.connect() or a statement fails is answered
\* 500 with the generic message and no detail, has issued no statement twice
\* and leaves the table as it was; an INSERT or UPDATE refused by the unique
\* constraint is answered 409 and stores nothing.
C16_StorageFailure ==
  /\ last.failed =>
       /\ last.resp.status = 500
       /\ last.resp.error = <<"Erro interno do servidor">>
       /\ last.resp.details = <<>>
       /\ store = last.before
       /\ last.queries <= StatementsOf(last.q.method)
  /\ (last.q.method \in {"POST", "PUT"} /\ last.resp.status # 0 /\ ~last.failed
        /\ (last.q.method = "PUT" => TargetBefore # {})
        /\ last.q.body.full_name # Undefined
        /\ \E other \in last.before \ TargetBefore :
             other.full_name = Trim(last.q.body.full_name.s)) =>
       last.resp.status = 409 /\ store = last.before
  /\ last.resp.status = 500 => last.failed

C16_Witness ==
  /\ Answered("PUT") /\ last.failed /\ last.resp.status = 500
  /\ last.queries = 3 /\ last.client
  /\ store # {}

\* C17: the startup probe makes at most 5 connection attempts; the server
\* listens, and serves, only after an attempt has succeeded; when all the
\* attempts have failed the process has exited with code 1, after 5 attempts,
\* without having listened or served.
C17_ProbeBounded ==
  /\ proc.attempts <= 5
  /\ proc.listening => proc.succeeded
  /\ proc.served > 0 => proc.listening
  /\ (proc.pc = "done" /\ ~proc.succeeded) =>
       /\ proc.exit = 1 /\ proc.exitBy = "startup"
       /\ proc.attempts = 5
       /\ ~proc.listening /\ proc.served = 0

C17_Witness ==
  /\ proc.pc = "done" /\ ~proc.succeeded
  /\ proc.exit = 1 /\ proc.attempts = 5 /\ Len(proc.delays) = 4

\* C18: each wait between failed attempts of the probe is at least double the
\* one before it, or is the cap of 10 seconds, and no wait follows the last
\* failed attempt.
C18_ExponentialBackoff ==
  /\ \A i \in 2..Len(proc.delays) :
       proc.delays[i] >= 2 * proc.delays[i - 1] \/ proc.delays[i] = 10000
  /\ Len(proc.delays) <= 4
  /\ (proc.pc = "done" /\ ~proc.succeeded) => Len(proc.delays) = proc.attempts - 1

\* C19: when the process has exited from gracefulShutdown, pool.end() had
\* completed, whatever the sequence of signals and uncaught exceptions.
C19_ExitAfterDrain ==
  (proc.exit # Running /\ proc.exitBy # "startup") => proc.drained

\* C20: an update answered 200, whatever ran beside it, leaves every field
\* absent from its body at the value the row held just before its write, so
\* that two concurrent updates of disjoint fields are both kept.
C20_NoLostUpdate ==
  (Answered("PUT") /\ last.resp.status = 200) =>
    \A old \in TargetBefore : \A new \in TargetNow :
      LET b == last.q.body
      IN  /\ b.full_name = Undefined => new.full_name = old.full_name
          /\ b.age = Undefined => new.age = old.age
          /\ b.first_semester = Undefined => new.first_semester = old.first_semester
          /\ b.second_semester = Undefined => new.second_semester = old.second_semester

\* C21: an update is answered 200 only when the participant is stored at the
\* moment of its write, and the body is then the row as the write left it; an
\* update whose participant was deleted after its existence read is not
\* answered 200.
C21_UpdateOnlyExisting ==
  (Answered("PUT") /\ last.resp.status = 200) =>
    /\ Cardinality(TargetBefore) = 1
    /\ Cardinality(TargetNow) = 1
    /\ last.row = TargetNow

=============================================================================
